---- MODULE Spec2Model ----
(***************************************************************************)
(* Use-def chains of include/swift/SIL/SILValue.h: ValueBase, SILValue,    *)
(* Operand and the use iterators, modelled at the level of the pointers    *)
(* the code reads and writes.  An Operand address is a number in Operands, *)
(* a ValueBase address a number in Values, and an Operand** (the Back      *)
(* field) is the address of a slot: the FirstUse field of a value or the   *)
(* NextUse field of an operand.                                            *)
(***************************************************************************)
EXTENDS Integers, Sequences, FiniteSets, TLC

\* ---- bounds of the model
\* number of ValueBase objects
NumValues == 2
\* number of addresses an Operand can be constructed at
NumOperands == 3
\* number of operations in one run
MaxOps == 3
\* largest number N of static operands of a TailAllocatedOperandList<N>
MaxStatic == 1
\* largest number of dynamic operands of a TailAllocatedOperandList
MaxExtra == 2
\* number of operations in one run of an operand list
MaxListOps == 2
\* number of operations in one run with iterators and without storage reuse
MaxDeepOps == 5

\* ---- program constants
ValueResultNumberBits == 1

Null == 0
Values == 1..NumValues
Operands == 1..NumOperands
ResultNumbers == 0..(2^ValueResultNumberBits - 1)

\* SILValue: the pair (ValueBase*, result number)
SILValue(V, ResultNumber) == [def |-> V, res |-> ResultNumber]
Handles == {SILValue(v, r) : v \in Values, r \in ResultNumbers}
NullValue == SILValue(Null, 0)

\* Operand**: the address of a pointer-to-Operand field
FirstUseSlot(v) == [kind |-> "FirstUse", id |-> v]
NextUseSlot(o) == [kind |-> "NextUse", id |-> o]
NullSlot == [kind |-> "null", id |-> 0]
Slots == {FirstUseSlot(v) : v \in Values} \cup {NextUseSlot(o) : o \in Operands}

VARIABLES
  FirstUse,   \* ValueBase::FirstUse, per value
  TheValue,   \* Operand::TheValue, per operand address
  NextUse,    \* Operand::NextUse
  Back,       \* Operand::Back
  Owner,      \* Operand::Owner
  live,       \* the addresses that hold a constructed, not yet destroyed Operand
  fault,      \* "none", or how the process died
  Cur,        \* ValueBaseUseIterator::Cur of one iterator instance
  CurAndResultNumber, \* ValueUseIterator::CurAndResultNumber of one instance
  nops,       \* operations performed so far
  linkOrder,  \* per value, the operands linked to it, most recently linked first
  last,       \* the operation that produced this state
  NumExtra,   \* TailAllocatedOperandList::NumExtra of one list
  list,       \* that list: its template argument N, where it is in its life,
              \* and the operands its destructor destroyed, in order
  calc        \* a call of a function without side effects, and its result

vars == <<FirstUse, TheValue, NextUse, Back, Owner, live, fault, Cur,
          CurAndResultNumber, nops, linkOrder, last, NumExtra, list, calc>>

\* The memory the Operand code works on, as one value.
Heap == [FirstUse |-> FirstUse, TheValue |-> TheValue, NextUse |-> NextUse,
         Back |-> Back, Owner |-> Owner, fault |-> fault]

\* *slot
Load(m, slot) ==
  IF slot.kind = "FirstUse" THEN m.FirstUse[slot.id] ELSE m.NextUse[slot.id]

\* Operand::removeFromCurrent, statement by statement.
removeFromCurrent(m, this) ==
  IF m.Back[this] = NullSlot THEN m
  ELSE LET p == Load(m, m.Back[this]) IN
    IF p = Null THEN [m EXCEPT !.fault = "segv"]
    ELSE LET m1 == [m EXCEPT !.NextUse[p] = m.NextUse[this]]
             n == m1.NextUse[this]
         IN IF n # Null THEN [m1 EXCEPT !.Back[n] = m1.Back[this]] ELSE m1

\* Operand::insertIntoCurrent, statement by statement.
insertIntoCurrent(m, this) ==
  LET v == m.TheValue[this].def
      m1 == [m EXCEPT !.Back[this] = FirstUseSlot(v)]
      m2 == [m1 EXCEPT !.NextUse[this] = m1.FirstUse[v]]
      n == m2.NextUse[this]
      m3 == IF n # Null THEN [m2 EXCEPT !.Back[n] = NextUseSlot(this)] ELSE m2
  IN [m3 EXCEPT !.FirstUse[v] = this]

\* Operand::Operand(ValueBase *owner, SILValue theValue) at address this
Operand(m, this, owner, theValue) ==
  insertIntoCurrent([m EXCEPT !.TheValue[this] = theValue,
                              !.NextUse[this] = Null,
                              !.Back[this] = NullSlot,
                              !.Owner[this] = owner], this)

\* set() with the store to TheValue left out
set_KeepsOldValue(m, this, newValue) ==
  LET m1 == removeFromCurrent(m, this) IN
    IF m1.fault # "none" THEN m1 ELSE insertIntoCurrent(m1, this)

\* Operand::set
set(m, this, newValue) ==
  LET m1 == removeFromCurrent(m, this) IN
    IF m1.fault # "none" THEN m1
    ELSE insertIntoCurrent([m1 EXCEPT !.TheValue[this] = newValue], this)

\* Operand::~Operand
DestroyOperand(m, this) == removeFromCurrent(m, this)

\* Operand::get, Operand::getUser
get(m, o) == m.TheValue[o]
getUser(m, o) == m.Owner[o]

\* ValueBase::use_empty, use_begin, use_end
use_empty(m, v) == m.FirstUse[v] = Null
use_begin(m, v) == m.FirstUse[v]
use_end == Null

\* ValueBaseUseIterator::operator++ applied to a non-null cursor
NextCur(m, cur) == m.NextUse[cur]

\* for (it = from; it != use_end() && n steps remain; ++it) collecting *it
RECURSIVE Walk(_, _, _)
Walk(m, cur, n) ==
  IF cur = use_end \/ n = 0 THEN <<>>
  ELSE <<cur>> \o Walk(m, NextCur(m, cur), n - 1)

\* A chain of more operands than there are addresses has a cycle.
MaxSteps == NumOperands + 1
\* ValueBase::getUses, enumerated
Uses(m, v) == Walk(m, use_begin(m, v), MaxSteps)
Terminates(m, v) == Len(Uses(m, v)) <= NumOperands

\* The cursor of a filtered iterator whose skip loop never exits.
Hang == -1

\* while (cur && cur->get().getResultNumber() != resultNumber)
\*   cur = cur->NextUse;
\* After NumOperands advances without a match the loop is on a cycle of
\* operands that do not match, and never exits.
RECURSIVE SkipOthers(_, _, _, _)
SkipOthers(m, cur, resultNumber, n) ==
  IF cur = Null THEN Null
  ELSE IF m.TheValue[cur].res = resultNumber THEN cur
  ELSE IF n = 0 THEN Hang
  ELSE SkipOthers(m, m.NextUse[cur], resultNumber, n - 1)

\* the constructor without its skip loop
ValueUseIterator_NoSkip(m, cur, resultNumber) ==
  [ptr |-> cur, int |-> resultNumber]

\* ValueUseIterator::ValueUseIterator(Operand *cur, unsigned resultNumber)
ValueUseIterator(m, cur, resultNumber) ==
  [ptr |-> SkipOthers(m, cur, resultNumber, NumOperands), int |-> resultNumber]

\* ValueUseIterator::operator++ applied to a non-null cursor
ValueUseIteratorIncr(m, it) ==
  [it EXCEPT !.ptr = SkipOthers(m, m.NextUse[it.ptr], it.int, NumOperands)]

\* SILValue::use_begin, SILValue::use_end
SILValue_use_begin(m, h) == ValueUseIterator(m, m.FirstUse[h.def], h.res)
SILValue_use_end(m) == ValueUseIterator(m, Null, 0)

\* operator==(ValueUseIterator, ValueUseIterator)
ValueUseIteratorEq(lhs, rhs) == lhs.ptr = rhs.ptr

\* SILValue::use_empty: use_begin() == use_end(). When the constructor's
\* skip loop does not exit (cursor Hang) the call does not return.
SILValue_use_empty(m, h) ==
  ValueUseIteratorEq(SILValue_use_begin(m, h), SILValue_use_end(m))

\* for (it = h.use_begin(); it != h.use_end() && n steps remain; ++it)
\* collecting *it
RECURSIVE FilteredWalk(_, _, _)
FilteredWalk(m, it, n) ==
  IF ValueUseIteratorEq(it, SILValue_use_end(m)) \/ it.ptr = Hang \/ n = 0
  THEN <<>>
  ELSE <<it.ptr>> \o FilteredWalk(m, ValueUseIteratorIncr(m, it), n - 1)

\* SILValue::getUses, enumerated
FilteredUses(m, h) == FilteredWalk(m, SILValue_use_begin(m, h), MaxSteps)

\* number of times o is enumerated in s
Count(s, o) == Cardinality({i \in 1..Len(s) : s[i] = o})

Store(m) ==
  /\ FirstUse' = m.FirstUse
  /\ TheValue' = m.TheValue
  /\ NextUse' = m.NextUse
  /\ Back' = m.Back
  /\ Owner' = m.Owner
  /\ fault' = m.fault

Record(op, o, old, new) == [op |-> op, o |-> o, old |-> old, new |-> new]

Without(s, o) == SelectSeq(s, LAMBDA x : x # o)

\* The list each value would have if every link went to the head and every
\* unlink took exactly one operand out.
Unlinked(lo, o) == [v \in Values |-> Without(lo[v], o)]
Linked(lo, o, v) == [lo EXCEPT ![v] = <<o>> \o lo[v]]

StepWithin(limit) ==
  /\ fault = "none"
  /\ nops < limit
  /\ nops' = nops + 1
  /\ UNCHANGED calc

StepIn(limit) ==
  /\ StepWithin(limit)
  /\ UNCHANGED <<NumExtra, list>>

Step == StepIn(MaxOps)

InitObjects ==
  /\ FirstUse = [v \in Values |-> Null]
  /\ TheValue = [o \in Operands |-> NullValue]
  /\ NextUse = [o \in Operands |-> Null]
  /\ Back = [o \in Operands |-> NullSlot]
  /\ Owner = [o \in Operands |-> Null]
  /\ live = {}
  /\ fault = "none"
  /\ Cur = Null
  /\ CurAndResultNumber = [ptr |-> Null, int |-> 0]
  /\ nops = 0
  /\ linkOrder = [v \in Values |-> <<>>]
  /\ last = Record("init", Null, NullValue, NullValue)
  /\ NumExtra = 0
  /\ list = [state |-> "none", N |-> 0, loop |-> <<>>, members |-> <<>>]

Init ==
  /\ InitObjects
  /\ calc = [fn |-> "none", done |-> TRUE]

\* The addresses a new Operand can be placed at: the storage of a destroyed
\* one, or storage never used before.  Unused addresses are interchangeable,
\* so the lowest stands for all of them.
Unused == {o \in Operands : Owner[o] = Null}
Free == {o \in Operands \ live : o \notin Unused \/ \A u \in Unused : o <= u}

\* new (addr) Operand(owner, theValue)
OperandCtorWithin(limit) ==
  \E o \in Free, owner \in Values, h \in Handles :
    /\ StepIn(limit)
    /\ Store(Operand(Heap, o, owner, h))
    /\ live' = live \cup {o}
    /\ linkOrder' = Linked(linkOrder, o, h.def)
    /\ last' = Record("ctor", o, NullValue, h)
    /\ UNCHANGED <<Cur, CurAndResultNumber>>

OperandCtor == OperandCtorWithin(MaxOps)

\* o.set(h)
OperandSetWithin(limit) ==
  \E o \in live, h \in Handles :
    /\ StepIn(limit)
    /\ Store(set(Heap, o, h))
    /\ linkOrder' = Linked(Unlinked(linkOrder, o), o, h.def)
    /\ last' = Record("set", o, TheValue[o], h)
    /\ UNCHANGED <<live, Cur, CurAndResultNumber>>

OperandSet == OperandSetWithin(MaxOps)

\* o.~Operand(); the storage keeps what the destructor left in it
OperandDtorWithin(limit) ==
  \E o \in live :
    /\ StepIn(limit)
    /\ Store(DestroyOperand(Heap, o))
    /\ live' = live \ {o}
    /\ linkOrder' = Unlinked(linkOrder, o)
    /\ last' = Record("dtor", o, TheValue[o], NullValue)
    /\ UNCHANGED <<Cur, CurAndResultNumber>>

OperandDtor == OperandDtorWithin(MaxOps)

\* The storage of a destroyed Operand is handed back to the allocator: what a
\* later read through a dangling pointer finds there is not determined.
Scribble ==
  \E o \in Operands \ (live \cup Unused), n \in (Operands \ Unused) \cup {Null},
     h \in Handles \cup {NullValue} :
    /\ Step
    /\ <<NextUse[o], TheValue[o]>> # <<n, h>>
    /\ NextUse' = [NextUse EXCEPT ![o] = n]
    /\ TheValue' = [TheValue EXCEPT ![o] = h]
    /\ last' = Record("scribble", o, TheValue[o], h)
    /\ UNCHANGED <<FirstUse, Back, Owner, live, fault, Cur,
                   CurAndResultNumber, linkOrder>>

\* it = v->use_begin()
UseBeginWithin(limit) ==
  \E v \in Values :
    /\ StepIn(limit)
    /\ Cur' = use_begin(Heap, v)
    /\ last' = Record("use_begin", Null, SILValue(v, 0), NullValue)
    /\ UNCHANGED <<FirstUse, TheValue, NextUse, Back, Owner, live, fault,
                   CurAndResultNumber, linkOrder>>

UseBegin == UseBeginWithin(MaxOps)

\* ++it; the assertion stops the process when it is at use_end()
UseIncrWithin(limit) ==
  /\ StepIn(limit)
  /\ IF Cur = Null
       THEN fault' = "assert" /\ Cur' = Cur
       ELSE fault' = fault /\ Cur' = NextCur(Heap, Cur)
  /\ last' = Record("incr", Cur, NullValue, NullValue)
  /\ UNCHANGED <<FirstUse, TheValue, NextUse, Back, Owner, live,
                 CurAndResultNumber, linkOrder>>

UseIncr == UseIncrWithin(MaxOps)

Settle(it) ==
  IF it.ptr = Hang
    THEN fault' = "hang" /\ CurAndResultNumber' = CurAndResultNumber
    ELSE fault' = fault /\ CurAndResultNumber' = it

\* it = h.use_begin()
ResultUseBegin ==
  \E h \in Handles :
    /\ Step
    /\ Settle(SILValue_use_begin(Heap, h))
    /\ last' = Record("result_use_begin", Null, h, NullValue)
    /\ UNCHANGED <<FirstUse, TheValue, NextUse, Back, Owner, live, Cur,
                   linkOrder>>

\* ++it on the filtered iterator with the assertion compiled out
ResultUseIncr_NoAssert ==
  /\ Step
  /\ IF CurAndResultNumber.ptr = Null
       THEN fault' = fault /\ CurAndResultNumber' = CurAndResultNumber
       ELSE Settle(ValueUseIteratorIncr(Heap, CurAndResultNumber))
  /\ last' = Record("result_incr", CurAndResultNumber.ptr, NullValue, NullValue)
  /\ UNCHANGED <<FirstUse, TheValue, NextUse, Back, Owner, live, Cur,
                 linkOrder>>

\* ++it on the filtered iterator
ResultUseIncr ==
  /\ Step
  /\ IF CurAndResultNumber.ptr = Null
       THEN fault' = "assert" /\ CurAndResultNumber' = CurAndResultNumber
       ELSE Settle(ValueUseIteratorIncr(Heap, CurAndResultNumber))
  /\ last' = Record("result_incr", CurAndResultNumber.ptr, NullValue, NullValue)
  /\ UNCHANGED <<FirstUse, TheValue, NextUse, Back, Owner, live, Cur,
                 linkOrder>>

Next == OperandCtor \/ OperandSet \/ OperandDtor \/ Scribble

Spec == Init /\ [][Next]_vars

\* the operand operations together with traversals in progress
NextIter == Next \/ UseBegin \/ UseIncr \/ ResultUseBegin \/ ResultUseIncr
SpecIter == Init /\ [][NextIter]_vars

\* Longer runs of the operations that leave the storage of destroyed
\* operands as the destructor left it.
DeepCtor == OperandCtorWithin(MaxDeepOps)
DeepSet == OperandSetWithin(MaxDeepOps)
DeepDtor == OperandDtorWithin(MaxDeepOps)
DeepUseBegin == UseBeginWithin(MaxDeepOps)
DeepUseIncr == UseIncrWithin(MaxDeepOps)

NextDeep == DeepCtor \/ DeepSet \/ DeepDtor \/ DeepUseBegin \/ DeepUseIncr

SpecDeep == Init /\ [][NextDeep]_vars

\* ---- TailAllocatedOperandList<N>: Buffer is the address the list's operands
\* start at; Buffer[i] is the operand at Buffer + i.
Buffer == 1
BufferAt(i) == Buffer + i

\* for (auto value : values) new (slot++) Operand(user, value);
RECURSIVE ConstructRun(_, _, _, _)
ConstructRun(m, slot, user, values) ==
  IF values = <<>> THEN m
  ELSE ConstructRun(Operand(m, slot, user, Head(values)), slot + 1, user,
                    Tail(values))

\* TailAllocatedOperandList<N>::TailAllocatedOperandList, N > 0: the member
\* initializer builds Buffer[0..N-1] from fixedArgs, the body places the
\* dynamic operands from Buffer + N on
TailAllocatedOperandList(m, N, user, dynamicArgs, fixedArgs) ==
  ConstructRun(ConstructRun(m, Buffer, user, fixedArgs), Buffer + N, user,
               dynamicArgs)

\* TailAllocatedOperandList<0>::TailAllocatedOperandList
TailAllocatedOperandList0(m, user, dynamicArgs) ==
  ConstructRun(m, Buffer, user, dynamicArgs)

\* asArray() that forgets the dynamic operands
asArray_StaticOnly(N, numExtra) == [i \in 1..N |-> BufferAt(i - 1)]

\* TailAllocatedOperandList<N>::asArray, getDynamicAsArray: the addresses of
\* the operands of the ArrayRef, in order
asArray(N, numExtra) == [i \in 1..(N + numExtra) |-> BufferAt(i - 1)]
getDynamicAsArray(N, numExtra) == [i \in 1..numExtra |-> BufferAt(N + i - 1)]

\* TailAllocatedOperandList<0>::asArray, getDynamicAsArray
asArray0(numExtra) == [i \in 1..numExtra |-> BufferAt(i - 1)]
getDynamicAsArray0(numExtra) == [i \in 1..numExtra |-> BufferAt(i - 1)]

\* OperandValueArrayRef: operator[] of the adapter is get() of the operand
OperandValueArrayRef(m, operands) ==
  [i \in 1..Len(operands) |-> get(m, operands[i])]

\* asValueArray, getDynamicValuesAsArray of both class templates
asValueArray(m, N, numExtra) == OperandValueArrayRef(m, asArray(N, numExtra))
getDynamicValuesAsArray(m, N, numExtra) ==
  OperandValueArrayRef(m, getDynamicAsArray(N, numExtra))
asValueArray0(m, numExtra) == OperandValueArrayRef(m, asArray0(numExtra))
getDynamicValuesAsArray0(m, numExtra) ==
  OperandValueArrayRef(m, getDynamicAsArray0(numExtra))

\* for (auto &op : operands) op.~Operand();
RECURSIVE DestroyRun(_, _)
DestroyRun(m, operands) ==
  IF operands = <<>> \/ m.fault # "none" THEN m
  ELSE DestroyRun(DestroyOperand(m, Head(operands)), Tail(operands))

Reverse(s) == [i \in 1..Len(s) |-> s[Len(s) + 1 - i]]

\* The operands the body of ~TailAllocatedOperandList destroys, and the ones
\* destroyed after the body as elements of the member Buffer[N], last element
\* first.  Buffer[1] of the specialization is a member of a union and is not
\* destroyed.
DtorLoop(N, numExtra) ==
  IF N = 0 THEN getDynamicAsArray0(numExtra) ELSE getDynamicAsArray(N, numExtra)
DtorMembers(N) == Reverse([i \in 1..N |-> BufferAt(i - 1)])

\* TailAllocatedOperandList::~TailAllocatedOperandList
DestroyList(m, N, numExtra) ==
  DestroyRun(DestroyRun(m, DtorLoop(N, numExtra)), DtorMembers(N))

RECURSIVE LinkedAll(_, _, _)
LinkedAll(lo, slot, values) ==
  IF values = <<>> THEN lo
  ELSE LinkedAll(Linked(lo, slot, Head(values).def), slot + 1, Tail(values))

ListStep ==
  /\ StepWithin(MaxListOps)
  /\ UNCHANGED <<Cur, CurAndResultNumber>>

\* new (storage) TailAllocatedOperandList<N>(user, dynamicArgs, fixedArgs...)
ListCtor ==
  /\ ListStep
  /\ list.state = "none"
  /\ live = {}
  /\ \E N \in 0..MaxStatic, k \in 0..MaxExtra, user \in Values :
       /\ N + k <= NumOperands
       /\ \E fixedArgs \in [1..N -> Handles], dynamicArgs \in [1..k -> Handles] :
            /\ Store(IF N = 0
                       THEN TailAllocatedOperandList0(Heap, user, dynamicArgs)
                       ELSE TailAllocatedOperandList(Heap, N, user, dynamicArgs,
                                                     fixedArgs))
            /\ NumExtra' = Len(dynamicArgs)
            /\ list' = [list EXCEPT !.state = "alive", !.N = N]
            /\ live' = {BufferAt(i - 1) : i \in 1..(N + k)}
            /\ linkOrder' = LinkedAll(linkOrder, Buffer, fixedArgs \o dynamicArgs)
            /\ last' = [op |-> "list_ctor", o |-> Null, old |-> NullValue,
                        new |-> NullValue, fixedArgs |-> fixedArgs,
                        dynamicArgs |-> dynamicArgs]

\* list[i].set(h)
ListSet ==
  \E o \in live, h \in Handles :
    /\ ListStep
    /\ list.state = "alive"
    /\ Store(set(Heap, o, h))
    /\ linkOrder' = Linked(Unlinked(linkOrder, o), o, h.def)
    /\ last' = Record("set", o, TheValue[o], h)
    /\ UNCHANGED <<live, NumExtra, list>>

\* list.~TailAllocatedOperandList()
ListDtor ==
  /\ ListStep
  /\ list.state = "alive"
  /\ Store(DestroyList(Heap, list.N, NumExtra))
  /\ list' = [list EXCEPT !.state = "destroyed",
                          !.loop = DtorLoop(list.N, NumExtra),
                          !.members = DtorMembers(list.N)]
  /\ live' = {}
  /\ linkOrder' = [v \in Values |-> <<>>]
  /\ last' = Record("list_dtor", Null, NullValue, NullValue)
  /\ UNCHANGED NumExtra

\* one tail-allocated operand list, from its construction to its destruction
NextList == ListCtor \/ ListSet \/ ListDtor
SpecList == Init /\ [][NextList]_vars

\* ---- functions without side effects: getExtraSize, the SILValue
\* constructor and accessors, comparison and hashing

\* sizeof(Operand) with 8-byte pointers: TheValue, NextUse, Back, Owner
SizeofOperand == 32

\* Unsigned integers of the program are words of 16-bit limbs, lowest limb
\* first: unsigned has 2 limbs (32 bits) and size_t has 4 (64 bits).
Limb == 2^16
UnsignedLimbs == 2
SizeLimbs == 4

RECURSIVE ToWord(_, _)
ToWord(n, limbs) ==
  IF limbs = 0 THEN <<>> ELSE <<n % Limb>> \o ToWord(n \div Limb, limbs - 1)
UINT_MAX == [i \in 1..UnsignedLimbs |-> Limb - 1]

\* w - 1 in the width of w
RECURSIVE SubOne(_)
SubOne(w) ==
  IF w = <<>> THEN <<>>
  ELSE IF Head(w) > 0 THEN <<Head(w) - 1>> \o Tail(w)
  ELSE <<Limb - 1>> \o SubOne(Tail(w))

\* c * w + carry in the width of w
RECURSIVE MulAdd(_, _, _)
MulAdd(c, w, carry) ==
  IF w = <<>> THEN <<>>
  ELSE <<(c * Head(w) + carry) % Limb>>
         \o MulAdd(c, Tail(w), (c * Head(w) + carry) \div Limb)

\* the conversion of an unsigned to size_t
ToSize(w) == w \o [i \in 1..(SizeLimbs - Len(w)) |-> 0]
IsZero(w) == \A i \in 1..Len(w) : w[i] = 0

\* the specialization's getExtraSize without the test for numExtra > 0
getExtraSize0_NoGuard(numExtra) ==
  MulAdd(SizeofOperand, ToSize(SubOne(numExtra)), 0)

\* TailAllocatedOperandList<N>::getExtraSize, N > 0
getExtraSize(numExtra) == MulAdd(SizeofOperand, ToSize(numExtra), 0)

\* TailAllocatedOperandList<0>::getExtraSize
getExtraSize0(numExtra) ==
  MulAdd(SizeofOperand,
         ToSize(IF ~IsZero(numExtra) THEN SubOne(numExtra)
                ELSE ToWord(0, UnsignedLimbs)), 0)

\* sizeof(Buffer): Operand Buffer[N], and Operand Buffer[1] in the
\* specialization
InlineBytes(N) == SizeofOperand * (IF N = 0 THEN 1 ELSE N)

\* The low bits of a ValueBase* that are free for the result number, and
\* where PointerIntPair puts it.
PtrLowBits == 2
IntShift == PtrLowBits - ValueResultNumberBits

\* the address of a ValueBase; nullptr is 0
AddressOf(v) == 8 * v

\* PointerIntPair<ValueBase*, ValueResultNumberBits>(V, ResultNumber): the
\* bits that fit are stored above the free low bits of the pointer
ValueAndResultNumber(V, ResultNumber) ==
  AddressOf(V) + (ResultNumber % 2^ValueResultNumberBits) * 2^IntShift

\* getOpaqueValue of a handle of the model
getOpaqueValue(h) == ValueAndResultNumber(h.def, h.res)

\* SILValue::getDef, getResultNumber on the stored word
getDef(word) == (word - (word % 2^PtrLowBits)) \div 8
getResultNumber(word) == (word \div 2^IntShift) % 2^ValueResultNumberBits

\* the constructor without its assertion
SILValueCtor_NoAssert(V, ResultNumber) ==
  LET word == ValueAndResultNumber(V, ResultNumber) IN
    [fault |-> "none", value |-> SILValue(getDef(word), getResultNumber(word))]

\* SILValue::SILValue(const ValueBase *V, unsigned ResultNumber)
SILValueCtor(V, ResultNumber) ==
  LET word == ValueAndResultNumber(V, ResultNumber) IN
    IF ResultNumber = getResultNumber(word)
      THEN [fault |-> "none",
            value |-> SILValue(getDef(word), getResultNumber(word))]
      ELSE [fault |-> "assert", value |-> NullValue]

\* SILValue::isValid, operator bool
isValid(h) == getDef(getOpaqueValue(h)) # Null

\* operator< that compares the ValueBase pointers only
SILValueLess_DefOnly(a, b) == AddressOf(a.def) < AddressOf(b.def)

\* SILValue::operator==, operator<
SILValueEq(a, b) == getOpaqueValue(a) = getOpaqueValue(b)
SILValueLess(a, b) == getOpaqueValue(a) < getOpaqueValue(b)

RECURSIVE Xor(_, _)
Xor(a, b) ==
  IF a = 0 /\ b = 0 THEN 0
  ELSE ((a + b) % 2) + 2 * Xor(a \div 2, b \div 2)

\* DenseMapInfo<swift::SILValue>::getHashValue: the hash of the ValueBase*,
\* unsigned((uintptr_t)p >> 4) ^ unsigned((uintptr_t)p >> 9); the addresses of
\* the model fit in an unsigned
getHashValue(h) ==
  LET p == AddressOf(getDef(getOpaqueValue(h))) IN
    Xor(p \div 2^4, p \div 2^9)

\* DenseMapInfo<swift::SILValue>::isEqual
isEqual(a, b) == SILValueEq(a, b)

\* every handle, the ones with a null ValueBase included
AllHandles == {SILValue(v, r) : v \in Values \cup {Null}, r \in ResultNumbers}

\* the calls a run can start from
Calls ==
  {[fn |-> "getExtraSize", done |-> FALSE, N |-> N, numExtra |-> k,
    out |-> <<>>] :
     N \in 0..MaxStatic,
     k \in {ToWord(n, UnsignedLimbs) : n \in 0..MaxExtra} \cup {UINT_MAX}}
  \cup {[fn |-> "compare", done |-> FALSE, a |-> a, b |-> b] :
          a \in AllHandles, b \in AllHandles}
  \cup {[fn |-> "SILValue", done |-> FALSE, V |-> V, ResultNumber |-> r] :
          V \in Values \cup {Null}, r \in 0..(2^(ValueResultNumberBits + 1) - 1)}

InitPure ==
  /\ InitObjects
  /\ calc \in Calls

Unchanged == UNCHANGED <<FirstUse, TheValue, NextUse, Back, Owner, live, Cur,
                         CurAndResultNumber, nops, linkOrder, last, NumExtra,
                         list>>

\* TailAllocatedOperandList<N>::getExtraSize(numExtra)
EvalGetExtraSize ==
  /\ calc.fn = "getExtraSize" /\ ~calc.done
  /\ calc' = [calc EXCEPT !.done = TRUE,
                          !.out = IF calc.N = 0 THEN getExtraSize0(calc.numExtra)
                                  ELSE getExtraSize(calc.numExtra)]
  /\ UNCHANGED fault
  /\ Unchanged

\* a == b, a < b, b < a, and the hash values of a and b
EvalCompare ==
  /\ calc.fn = "compare" /\ ~calc.done
  /\ calc' = [fn |-> "compare", done |-> TRUE, a |-> calc.a, b |-> calc.b,
              eq |-> SILValueEq(calc.a, calc.b),
              lt |-> SILValueLess(calc.a, calc.b),
              gt |-> SILValueLess(calc.b, calc.a),
              isEqual |-> isEqual(calc.a, calc.b),
              hashA |-> getHashValue(calc.a), hashB |-> getHashValue(calc.b)]
  /\ UNCHANGED fault
  /\ Unchanged

\* SILValue(V, ResultNumber); the assertion stops the process
EvalSILValue ==
  /\ calc.fn = "SILValue" /\ ~calc.done
  /\ LET r == SILValueCtor(calc.V, calc.ResultNumber) IN
       /\ fault' = r.fault
       /\ calc' = [fn |-> "SILValue", done |-> TRUE, V |-> calc.V,
                   ResultNumber |-> calc.ResultNumber, value |-> r.value,
                   valid |-> isValid(r.value)]
  /\ Unchanged

NextPure == EvalGetExtraSize \/ EvalCompare \/ EvalSILValue
SpecPure == InitPure /\ [][NextPure]_vars

\* the operands that are alive and whose TheValue names v
Targeting(v) == {o \in live : TheValue[o].def = v}
Removed == last'.op = "dtor" \/ (last'.op = "set" /\ last'.new.def # last'.old.def)

\* C1: every live Operand is enumerated exactly once by the use list of the
\* value it targets and by no other use list, and right after an Operand is
\* destroyed or retargeted to another value the list of the value it targeted
\* does not enumerate it.
C1_UseListMembership ==
  /\ \A o \in live : \A v \in Values :
       Count(Uses(Heap, v), o) = IF v = TheValue[o].def THEN 1 ELSE 0
  /\ (last.op = "dtor" \/ (last.op = "set" /\ last.new.def # last.old.def))
       => Count(Uses(Heap, last.old.def), last.o) = 0

\* C2: taking an Operand out of a use list (destructor, or set() to another
\* value) leaves the list enumerating the other operands in their old order.
C2_RemovalKeepsOrder ==
  [][Removed => Uses(Heap', last'.old.def)
                  = Without(Uses(Heap, last'.old.def), last'.o)]_vars

\* C3: use_empty() of a value is true exactly when no live Operand targets it.
C3_UseEmptyIffNoUse ==
  \A v \in Values : use_empty(Heap, v) <=> Targeting(v) = {}

\* C4: after o.set(h) returns, o.get() is h and o is the head of the use list
\* of h's value.
C4_SetRoundTrip ==
  (last.op = "set" /\ fault = "none")
    => /\ get(Heap, last.o) = last.new
       /\ use_begin(Heap, last.new.def) = last.o

C4_Witness ==
  /\ last.op = "set"
  /\ fault = "none"
  /\ last.new.def # last.old.def
  /\ last.new.res = 1
  /\ NextUse[last.o] \in live

\* C5: the use list of a value enumerates the operands linked to it, the most
\* recently linked first.
C5_MostRecentFirst ==
  \A v \in Values : Uses(Heap, v) = linkOrder[v]

Matching(m, s, r) == SelectSeq(s, LAMBDA o : m.TheValue[o].res = r)
IsPrefix(s, t) == Len(s) <= Len(t) /\ SubSeq(t, 1, Len(s)) = s

\* C6: the filtered iteration of SILValue(v, i) yields the operands of v's
\* use list whose result number is i, in the order of that list, and nothing
\* else; where the list is cyclic it yields them for as long as it runs.
C6_FilteredIsSublist ==
  \A h \in Handles :
    LET F == FilteredUses(Heap, h)
        U == Walk(Heap, use_begin(Heap, h.def), MaxSteps * MaxSteps)
    IN /\ \A i \in 1..Len(F) : get(Heap, F[i]).res = h.res
       /\ IsPrefix(F, Matching(Heap, U, h.res))
       /\ Terminates(Heap, h.def)
            => F = Matching(Heap, Uses(Heap, h.def), h.res)

C6_Witness ==
  \E v \in Values :
    LET U == Uses(Heap, v) IN
      /\ Len(U) = 3
      /\ \A i \in 1..3 : U[i] \in live
      /\ get(Heap, U[1]).res = 0
      /\ get(Heap, U[2]).res = 1
      /\ get(Heap, U[3]).res = 0
      /\ FilteredUses(Heap, SILValue(v, 0)) = <<U[1], U[3]>>
      /\ FilteredUses(Heap, SILValue(v, 1)) = <<U[2]>>

\* the operands a traversal standing on o has still to visit
RECURSIVE After(_, _)
After(s, o) ==
  IF s = <<>> THEN <<>> ELSE IF Head(s) = o THEN Tail(s) ELSE After(Tail(s), o)
Elems(s) == {s[i] : i \in 1..Len(s)}

\* C7: when an unfiltered iterator stands on o in V's list and o.set()
\* retargets o to another value, the operands after o are still in V's list,
\* once each and in the same order, and V's list holds no operand that
\* targets another value.
C7_RetargetUnderCursor ==
  [][(/\ last'.op = "set"
      /\ last'.new.def # last'.old.def
      /\ Cur = last'.o
      /\ Count(Uses(Heap, last'.old.def), Cur) = 1)
     => LET V == last'.old.def
            rest == After(Uses(Heap, V), Cur)
            now == Uses(Heap', V)
        IN /\ \A i \in 1..Len(rest) : Count(now, rest[i]) = 1
           /\ SelectSeq(now, LAMBDA x : x \in Elems(rest)) = rest
           /\ \A i \in 1..Len(now) : TheValue'[now[i]].def = V]_vars

\* C8: o.set(h) with h o's current target leaves the list with the same
\* operands, o first and the others in their old order.
C8_SetToSameTarget ==
  [][(last'.op = "set" /\ last'.new.def = last'.old.def)
     => Uses(Heap', last'.new.def)
          = <<last'.o>> \o Without(Uses(Heap, last'.new.def), last'.o)]_vars

\* C9: every use list ends: a traversal from use_begin() reaches use_end()
\* after as many steps as there are operands linked to the value.
C9_FiniteAcyclic ==
  \A v \in Values :
    /\ Terminates(Heap, v)
    /\ Len(Uses(Heap, v)) = Cardinality(Targeting(v))

\* C10: set() on o and the destruction of o change no other operand's
\* TheValue or Owner and no use list other than those of o's old and new
\* target, and no operation changes the Owner of a live operand.
C10_Frame ==
  [][/\ last'.op \in {"set", "dtor"}
        => /\ \A p \in live \ {last'.o} :
                TheValue'[p] = TheValue[p] /\ Owner'[p] = Owner[p]
           /\ \A v \in Values \ {last'.old.def, last'.new.def} :
                Uses(Heap', v) = Uses(Heap, v)
     /\ \A o \in live \cap live' : Owner'[o] = Owner[o]]_vars

\* the dynamic operands of the list
DynamicOperands == {BufferAt(list.N + i - 1) : i \in 1..NumExtra}

\* C11: the destructor of a TailAllocatedOperandList with k dynamic operands
\* destroys exactly those k operands in its loop, in index order and none of the
\* static ones, and afterwards no use list enumerates any of them.
C11_ListDtorUnlinksDynamic ==
  list.state = "destroyed"
    => /\ list.loop = [i \in 1..NumExtra |-> BufferAt(list.N + i - 1)]
       /\ \A i \in 1..list.N : BufferAt(i - 1) \notin DynamicOperands
       /\ \A d \in DynamicOperands : \A v \in Values :
            Count(Uses(Heap, v), d) = 0
\* the views of the list, of the class template its N selects
ListAsArray == IF list.N = 0 THEN asArray0(NumExtra) ELSE asArray(list.N, NumExtra)
ListDynamicAsArray ==
  IF list.N = 0 THEN getDynamicAsArray0(NumExtra)
  ELSE getDynamicAsArray(list.N, NumExtra)
ListAsValueArray ==
  IF list.N = 0 THEN asValueArray0(Heap, NumExtra)
  ELSE asValueArray(Heap, list.N, NumExtra)
ListDynamicValuesAsArray ==
  IF list.N = 0 THEN getDynamicValuesAsArray0(Heap, NumExtra)
  ELSE getDynamicValuesAsArray(Heap, list.N, NumExtra)

\* C12: a list built from fixed targets F and dynamic targets D has
\* asArray().size() = N + k and getDynamicAsArray().size() = k, its
\* asValueArray() is F followed by D and its getDynamicValuesAsArray() is D,
\* and k does not change while the list lives, set() included.
C12_ListViews ==
  /\ [](list.state = "alive"
         => /\ Len(ListAsArray) = list.N + NumExtra
            /\ Len(ListDynamicAsArray) = NumExtra
            /\ Len(ListAsValueArray) = list.N + NumExtra
            /\ last.op = "list_ctor"
                 => /\ Len(last.fixedArgs) = list.N
                    /\ Len(last.dynamicArgs) = NumExtra
                    /\ ListAsValueArray = last.fixedArgs \o last.dynamicArgs
                    /\ ListDynamicValuesAsArray = last.dynamicArgs
            /\ last.op = "set"
                 => \E i \in 1..Len(ListAsArray) :
                      /\ ListAsArray[i] = last.o
                      /\ ListAsValueArray[i] = last.new)
  /\ [][(list.state = "alive" /\ list'.state = "alive")
          => NumExtra' = NumExtra]_vars

C12_Witness ==
  /\ list.state = "alive"
  /\ last.op = "list_ctor"
  /\ list.N = 1
  /\ NumExtra = 2
  /\ Cardinality({ListAsValueArray[i] : i \in 1..3}) = 3
  /\ ListDynamicValuesAsArray[1].def = ListDynamicValuesAsArray[2].def
Max(a, b) == IF a > b THEN a ELSE b

\* C13: getExtraSize(k) is the number of bytes that, added to the inline
\* Buffer, hold N + k operands: sizeof(Operand) * k for N > 0, and for N = 0
\* sizeof(Operand) * (k - 1) for k > 0 and 0 for k = 0; the largest unsigned k
\* does not wrap either.
C13_ExtraSize ==
  (calc.fn = "getExtraSize" /\ calc.done)
    => /\ \A k \in 0..MaxExtra :
            calc.numExtra = ToWord(k, UnsignedLimbs)
              => /\ calc.out
                      = ToWord(IF calc.N > 0 THEN SizeofOperand * k
                               ELSE IF k > 0 THEN SizeofOperand * (k - 1)
                               ELSE 0, SizeLimbs)
                 /\ calc.out
                      = ToWord(Max(0, SizeofOperand * (calc.N + k)
                                        - InlineBytes(calc.N)), SizeLimbs)
       /\ calc.numExtra = UINT_MAX
            => calc.out = IF calc.N > 0 THEN <<Limb - 32, Limb - 1, 31, 0>>
                          ELSE <<Limb - 64, Limb - 1, 31, 0>>

C13_Witness ==
  /\ calc.fn = "getExtraSize" /\ calc.done
  /\ calc.N = 0 /\ IsZero(calc.numExtra) /\ IsZero(calc.out)

\* C14: a == b exactly when the ValueBase and the result number agree;
\* operator< orders by the address of the ValueBase and then by the result
\* number, and exactly one of a < b, a == b, b < a holds; equal handles have
\* the same hash value.
C14_HandleOrder ==
  (calc.fn = "compare" /\ calc.done)
    => LET a == calc.a
           b == calc.b
       IN /\ calc.eq <=> (a.def = b.def /\ a.res = b.res)
          /\ calc.isEqual <=> calc.eq
          /\ calc.lt <=> \/ AddressOf(a.def) < AddressOf(b.def)
                         \/ a.def = b.def /\ a.res < b.res
          /\ calc.gt <=> \/ AddressOf(b.def) < AddressOf(a.def)
                         \/ a.def = b.def /\ b.res < a.res
          /\ Cardinality({x \in {"lt", "eq", "gt"} : calc[x]}) = 1
          /\ calc.eq => calc.hashA = calc.hashB

C14_Witness ==
  /\ calc.fn = "compare" /\ calc.done
  /\ calc.a.def = calc.b.def /\ calc.a.def # Null
  /\ calc.a.res = 0 /\ calc.b.res = 1
  /\ calc.lt /\ ~calc.gt /\ ~calc.eq

\* C15: SILValue(V, r) with r too large for ValueResultNumberBits stops at
\* the assertion and yields no handle; with r in range it yields the handle
\* with getDef() = V and getResultNumber() = r, which is valid exactly when V
\* is not null.
C15_HandleConstruction ==
  (calc.fn = "SILValue" /\ calc.done)
    => IF calc.ResultNumber >= 2^ValueResultNumberBits
         THEN fault = "assert" /\ calc.value = NullValue
         ELSE /\ fault = "none"
              /\ calc.value.def = calc.V
              /\ calc.value.res = calc.ResultNumber
              /\ getDef(getOpaqueValue(calc.value)) = calc.V
              /\ getResultNumber(getOpaqueValue(calc.value)) = calc.ResultNumber
              /\ calc.valid <=> calc.V # Null

C15_Witness ==
  /\ calc.fn = "SILValue" /\ calc.done
  /\ calc.ResultNumber = 2
  /\ calc.V # Null
  /\ fault = "assert"
\* C16: the terminal state of both iterators is the null cursor, which is
\* use_end(); operator++ in that state stops at the assertion and changes
\* nothing, and operator++ in any other state does not trip the assertion.
C16_IncrementAtEnd ==
  [][/\ use_end = Null
     /\ SILValue_use_end(Heap).ptr = Null
     /\ last'.op = "incr"
          => IF Cur = use_end
               THEN fault' = "assert" /\ Cur' = Cur
               ELSE fault' = "none" /\ Cur' = NextUse[Cur]
     /\ last'.op = "result_incr"
          => IF ValueUseIteratorEq(CurAndResultNumber, SILValue_use_end(Heap))
               THEN /\ fault' = "assert"
                    /\ CurAndResultNumber' = CurAndResultNumber
               ELSE fault' # "assert"]_vars

C16_Witness ==
  /\ fault = "assert"
  /\ last.op = "result_incr"
  /\ CurAndResultNumber.ptr = Null
  /\ CurAndResultNumber.int = 1
  /\ live # {}
\* C17: between operations every live Operand o has a Back that addresses
\* the slot holding o, which is FirstUse of o's target or NextUse of a live
\* operand of the same list, and a NextUse that is null or a live operand
\* whose Back addresses o's NextUse.
C17_BackLink ==
  \A o \in live :
    /\ Back[o] # NullSlot
    /\ Load(Heap, Back[o]) = o
    /\ \/ Back[o] = FirstUseSlot(TheValue[o].def)
       \/ /\ Back[o].kind = "NextUse"
          /\ Back[o].id \in live \ {o}
          /\ TheValue[Back[o].id].def = TheValue[o].def
    /\ NextUse[o] # Null
         => NextUse[o] \in live /\ Back[NextUse[o]] = NextUseSlot(o)
\* C19: no FirstUse and no NextUse or Back of a live Operand refers to a
\* destroyed Operand, so that removeFromCurrent and insertIntoCurrent, which
\* reach other operands only through these fields, never read or write a
\* field of a destroyed Operand.
C19_NoDestroyedReachable ==
  /\ \A v \in Values : FirstUse[v] \in live \cup {Null}
  /\ \A o \in live :
       /\ NextUse[o] \in live \cup {Null}
       /\ Back[o].kind = "NextUse" => Back[o].id \in live

\* C20: use_empty() of the handle (v, i) returns, and returns true exactly
\* when no live Operand targets result i of v.
C20_ResultUseEmpty ==
  \A h \in Handles :
    /\ SILValue_use_begin(Heap, h).ptr # Hang
    /\ SILValue_use_empty(Heap, h) <=> {o \in live : TheValue[o] = h} = {}
\* C18: when an unfiltered iterator stands on an operand p that comes after
\* o in a use list and o is retargeted or destroyed, continued operator++
\* from p yields the operands it would have yielded before.
C18_CursorPastRemoved ==
  [][(/\ last'.op \in {"set", "dtor"}
      /\ Cur # Null
      /\ Cur # last'.o
      /\ Cur \in Elems(After(Uses(Heap, last'.old.def), last'.o)))
     => Walk(Heap', Cur, MaxSteps) = Walk(Heap, Cur, MaxSteps)]_vars
====
